---- MODULE Spec2Model ----
(***************************************************************************)
(* GitHubRepoLoader (src/src/index.ts): one loader instance, its exclusion *)
(* set, the top-level fetches running on it (batch and streaming), and the *)
(* remote calls they submit through the instance's rate-limit manager.     *)
(*                                                                         *)
(* Strings are sequences of code points, buffers sequences of bytes,       *)
(* base64 text a sequence of one-character strings.                        *)
(***************************************************************************)
EXTENDS Integers, Sequences, FiniteSets, TLC

(***************************************************************************)
(* Bounds of the model.                                                    *)
(***************************************************************************)
\* Number of top-level fetches that may be in progress, or settled and still
\* held by the caller, at once.
MaxCalls == 2
\* Longest tree listing the remote returns (a prefix of FullTree).
MaxTree == 4
\* Longest generated .gitignore text, in characters.
MaxText == 3

Calls == 1..MaxCalls

(***************************************************************************)
(* Constructor options (this model's configuration of the limiter).        *)
(***************************************************************************)
Concurrency == 2
RequestsPerInterval == 2
\* intervalMs, counted in clock ticks.
IntervalTicks == 2

(***************************************************************************)
(* Sequence helpers.                                                       *)
(***************************************************************************)
RECURSIVE Join(_, _)
Join(ss, sep) ==
    IF ss = <<>> THEN <<>>
    ELSE IF Len(ss) = 1 THEN ss[1]
    ELSE ss[1] \o sep \o Join(Tail(ss), sep)

Range(s) == {s[i] : i \in DOMAIN s}

(***************************************************************************)
(* Buffer.from(text, "base64"): characters outside the alphabet are        *)
(* skipped, "=" ends the data, every 4 sextets give 3 bytes, a trailing    *)
(* group of 2 or 3 sextets gives 1 or 2 bytes.                             *)
(***************************************************************************)
B64Alphabet ==
    << "A","B","C","D","E","F","G","H","I","J","K","L","M","N","O","P",
       "Q","R","S","T","U","V","W","X","Y","Z","a","b","c","d","e","f",
       "g","h","i","j","k","l","m","n","o","p","q","r","s","t","u","v",
       "w","x","y","z","0","1","2","3","4","5","6","7","8","9","+","/" >>

B64Val(ch) == (CHOOSE i \in DOMAIN B64Alphabet : B64Alphabet[i] = ch) - 1

RECURSIVE B64Sextets(_)
B64Sextets(text) ==
    IF text = <<>> \/ Head(text) = "=" THEN <<>>
    ELSE IF Head(text) \in Range(B64Alphabet)
         THEN <<B64Val(Head(text))>> \o B64Sextets(Tail(text))
         ELSE B64Sextets(Tail(text))

RECURSIVE B64Bytes(_)
B64Bytes(sx) ==
    IF Len(sx) < 2 THEN <<>>
    ELSE LET b1 == sx[1] * 4 + (sx[2] \div 16)
         IN IF Len(sx) = 2 THEN <<b1>>
            ELSE LET b2 == (sx[2] % 16) * 16 + (sx[3] \div 4)
                 IN IF Len(sx) = 3 THEN <<b1, b2>>
                    ELSE <<b1, b2, (sx[3] % 4) * 64 + sx[4]>>
                         \o B64Bytes(SubSeq(sx, 5, Len(sx)))

Base64Decode(text) == B64Bytes(B64Sextets(text))

(***************************************************************************)
(* buffer.toString("utf-8"): one-, two- and three-byte sequences; any byte *)
(* that does not start a well-formed sequence becomes U+FFFD.  Four-byte   *)
(* sequences (lead bytes F0..F4) are outside the contents modelled here.   *)
(***************************************************************************)
IsCont(b) == b >= 128 /\ b <= 191

RECURSIVE Utf8Decode(_)
Utf8Decode(bs) ==
    IF bs = <<>> THEN <<>>
    ELSE LET b == bs[1]
             n == Len(bs)
         IN IF b < 128 THEN <<b>> \o Utf8Decode(Tail(bs))
            ELSE IF b >= 194 /\ b <= 223 /\ n >= 2 /\ IsCont(bs[2])
                 THEN <<(b - 192) * 64 + (bs[2] - 128)>>
                      \o Utf8Decode(SubSeq(bs, 3, n))
            ELSE IF /\ b >= 224 /\ b <= 239 /\ n >= 3
                    /\ IsCont(bs[2]) /\ IsCont(bs[3])
                    /\ (b = 224 => bs[2] >= 160)
                    /\ (b = 237 => bs[2] <= 159)
                 THEN <<(b - 224) * 4096 + (bs[2] - 128) * 64 + (bs[3] - 128)>>
                      \o Utf8Decode(SubSeq(bs, 4, n))
            ELSE <<65533>> \o Utf8Decode(Tail(bs))

(***************************************************************************)
(* Buffer.from(string, "utf-8"): code points below U+10000; a lone         *)
(* surrogate is written as U+FFFD.                                         *)
(***************************************************************************)
Utf8EncodeCp(c) ==
    IF c < 128 THEN <<c>>
    ELSE IF c < 2048 THEN <<192 + (c \div 64), 128 + (c % 64)>>
    ELSE IF c >= 55296 /\ c <= 57343 THEN <<239, 191, 189>>
    ELSE <<224 + (c \div 4096), 128 + ((c \div 64) % 64), 128 + (c % 64)>>

RECURSIVE Utf8Encode(_)
Utf8Encode(str) ==
    IF str = <<>> THEN <<>> ELSE Utf8EncodeCp(Head(str)) \o Utf8Encode(Tail(str))

(***************************************************************************)
(* String.prototype.split("\n"), trim() and startsWith("#").               *)
(***************************************************************************)
RECURSIVE SplitLines(_)
SplitLines(str) ==
    IF \A i \in DOMAIN str : str[i] # 10 THEN <<str>>
    ELSE LET k == CHOOSE i \in DOMAIN str :
                      str[i] = 10 /\ \A j \in 1..(i - 1) : str[j] # 10
         IN <<SubSeq(str, 1, k - 1)>> \o SplitLines(SubSeq(str, k + 1, Len(str)))

IsWhiteSpace(c) ==
    c \in {9, 10, 11, 12, 13, 32, 160, 5760, 8232, 8233, 8239, 8287, 12288, 65279}
    \/ (c >= 8192 /\ c <= 8202)

RECURSIVE TrimStart(_)
TrimStart(str) ==
    IF str # <<>> /\ IsWhiteSpace(Head(str)) THEN TrimStart(Tail(str)) ELSE str

RECURSIVE TrimEnd(_)
TrimEnd(str) ==
    IF str # <<>> /\ IsWhiteSpace(str[Len(str)])
    THEN TrimEnd(SubSeq(str, 1, Len(str) - 1)) ELSE str

Trim(str) == TrimEnd(TrimStart(str))

StartsWithHash(str) == str # <<>> /\ str[1] = 35

(***************************************************************************)
(* The repository snapshot served by the remote API.                       *)
(***************************************************************************)
PathA == <<97>>
PathB == <<98>>
PathD == <<100>>
PathL == <<108>>

\* The recursive tree listing is a prefix of this one: a directory, a file,
\* a symlink (a blob whose content response has no "content") and a file.
FullTree ==
    << [path |-> PathD, type |-> "tree"],
       [path |-> PathA, type |-> "blob"],
       [path |-> PathL, type |-> "blob"],
       [path |-> PathB, type |-> "blob"],
       [path |-> <<100, 47, 97>>, type |-> "blob"] >>

Trees == {SubSeq(FullTree, 1, n) : n \in 0..MaxTree}

NoContent == [hasContent |-> FALSE]
WithContent(b64) == [hasContent |-> TRUE, content |-> b64]

\* repos.getContent on a path: the response data.
BlobResponse(path) ==
    IF path = PathA THEN WithContent(<<"/", "w", "=", "=">>)       \* byte FF
    ELSE IF path = PathB THEN WithContent(<<"w", "6", "k", "=">>)  \* C3 A9
    ELSE IF path = PathL THEN NoContent
    ELSE IF path = PathD THEN NoContent
    ELSE WithContent(<<"a", "G", "k", "=">>)                        \* "hi"

\* The .gitignore responses of the snapshots: a directory of that name,
\* "#a\n l \n\nb\n", and "a\n".
GitignoreFiles ==
    { NoContent,
      WithContent(<<"I","2","E","K","I","G","w","g","C","g","p","i","C","g","=","=">>),
      WithContent(<<"Y", "Q", "o", "=">>) }

(***************************************************************************)
(* The remote side of a content response: the file's bytes in base64, in   *)
(* the padded alphabet, ended by a line feed.                              *)
(***************************************************************************)
RECURSIVE B64Groups(_)
B64Groups(bs) ==
    IF bs = <<>> THEN <<>>
    ELSE LET n == Len(bs)
             c1 == B64Alphabet[(bs[1] \div 4) + 1]
         IN IF n = 1
            THEN <<c1, B64Alphabet[(bs[1] % 4) * 16 + 1], "=", "=">>
            ELSE LET c2 == B64Alphabet[(bs[1] % 4) * 16 + (bs[2] \div 16) + 1]
                 IN IF n = 2
                    THEN <<c1, c2, B64Alphabet[(bs[2] % 16) * 4 + 1], "=">>
                    ELSE <<c1, c2,
                           B64Alphabet[(bs[2] % 16) * 4 + (bs[3] \div 64) + 1],
                           B64Alphabet[(bs[3] % 64) + 1]>>
                         \o B64Groups(SubSeq(bs, 4, n))

Base64Encode(bs) == B64Groups(bs) \o <<"\n">>

\* The content response for a .gitignore file holding `text`; text is the
\* file as the repository stores it, which the loader never reads.
IgnoreResponse(text) ==
    [hasContent |-> TRUE, content |-> Base64Encode(Utf8Encode(text)),
     text |-> text]

\* Characters of the generated .gitignore texts: a, b, #, space, line feed.
IgnoreAlphabet == {97, 98, 35, 32, 10}

\* "a.txt\nsecret/\n" over a tree with a.txt and secret/key.pem.
PathATxt == <<97, 46, 116, 120, 116>>
PathSecretKey == <<115, 101, 99, 114, 101, 116, 47, 107, 101, 121, 46, 112, 101, 109>>
PrefixIgnoreText == <<97, 46, 116, 120, 116, 10, 115, 101, 99, 114, 101, 116, 47, 10>>
PrefixTree ==
    << [path |-> PathATxt, type |-> "blob"],
       [path |-> <<115, 101, 99, 114, 101, 116>>, type |-> "tree"],
       [path |-> PathSecretKey, type |-> "blob"] >>

\* "dist/bundle.js" over README.md, src/a.ts and dist/bundle.js.
PathReadme == <<82, 69, 65, 68, 77, 69, 46, 109, 100>>
PathSrcA == <<115, 114, 99, 47, 97, 46, 116, 115>>
PathBundle == <<100, 105, 115, 116, 47, 98, 117, 110, 100, 108, 101, 46, 106, 115>>
BundleIgnoreText == PathBundle
BundleTree ==
    << [path |-> PathReadme, type |-> "blob"],
       [path |-> PathSrcA, type |-> "blob"],
       [path |-> PathBundle, type |-> "blob"] >>

IgnoreTexts ==
    {PrefixIgnoreText, BundleIgnoreText}
    \cup UNION {[1..n -> IgnoreAlphabet] : n \in 0..MaxText}

\* A listing with the paths "a", "b" and "a b".
LettersTree ==
    << [path |-> PathA, type |-> "blob"],
       [path |-> PathB, type |-> "blob"],
       [path |-> <<97, 32, 98>>, type |-> "blob"] >>

IgnoreTrees == {PrefixTree, BundleTree, LettersTree}

(***************************************************************************)
(* State.                                                                  *)
(***************************************************************************)
VARIABLES
    tree,           \* snapshot: the recursive tree listing of the branch
    gitignore,      \* snapshot: the response data for .gitignore
    ignoredFiles,   \* this.ignoredFiles
    queue,          \* limiter: operations submitted and not yet started
    running,        \* limiter: operations it started and has not seen settle
    recentStarts,   \* limiter: starts per tick of the current window
    remote,         \* requests outstanding at the remote API
    remoteStarts,   \* requests the remote API received, per tick of the window
    call            \* the top-level fetches, by call number

vars == <<tree, gitignore, ignoredFiles, queue, running, recentStarts,
          remote, remoteStarts, call>>

Formats == {"json", "string", "buffer", "xml"}
\* filterFn: absent, or a predicate that rejects the path "a".
Filters == {"none", "notA"}

FilterAccepts(f, path) == f = "none" \/ path # PathA

Pending == [kind |-> "pending"]
Null == [kind |-> "null"]
Failed == [kind |-> "failed"]
File(p, c) == [path |-> p, content |-> c]
NoResult == [kind |-> "none"]

Op(c, k, i) == [call |-> c, kind |-> k, idx |-> i]

EmptyWindow == [i \in 1..IntervalTicks |-> 0]

RECURSIVE Sum(_)
Sum(s) == IF s = <<>> THEN 0 ELSE Head(s) + Sum(Tail(s))

\* One top-level fetch.  pc is where it stands: idle (not made), created (a
\* generator not yet pulled), quota / gitignore / commit / tree (awaiting
\* that request), contents (batch: awaiting Promise.all), content (stream:
\* awaiting the fetch of entry `cursor`), yielded (stream: suspended at its
\* yield), done (settled).  mode .. filterFn are its arguments; remaining,
\* files and contents are its locals (in streaming mode contents keeps what
\* each fetch gave); outcome and result are how it settled, yielded what the
\* generator has yielded.  The rest records what happened: fresh (the
\* exclusion set was empty when the body started), gitignoreLoad (how
\* loadGitignore went), listed and used (the filter ran, and the exclusion
\* set it read), thrownBy (the request whose error ended the call), issued
\* (the operations submitted, in order), settled (the entries whose content
\* fetch has settled, in the order they settled).
IdleCall ==
    [pc |-> "idle", mode |-> "batch", decodeContent |-> FALSE,
     ignoreGitIgnoreFiles |-> FALSE, outputFormat |-> "json", filterFn |-> "none",
     fresh |-> TRUE, remaining |-> -1, gitignoreLoad |-> "notrun",
     listed |-> FALSE, files |-> <<>>, used |-> {}, cursor |-> 0,
     contents |-> <<>>, outcome |-> "pending", thrownBy |-> "none",
     result |-> NoResult, yielded |-> <<>>, issued |-> <<>>, settled |-> <<>>]

Init ==
    /\ tree \in Trees
    /\ gitignore \in GitignoreFiles
    /\ ignoredFiles = {}
    /\ queue = <<>>
    /\ running = {}
    /\ recentStarts = EmptyWindow
    /\ remote = {}
    /\ remoteStarts = EmptyWindow
    /\ call = [c \in Calls |-> IdleCall]

(***************************************************************************)
(* The rate-limit manager (package safe-calls), as section 4.1 of the      *)
(* specification describes it: a FIFO queue per key, a concurrency gate    *)
(* and a rate gate.  An operation here is the whole unit of work the       *)
(* manager runs, its retries included; it settles once.                    *)
(***************************************************************************)
\* The one key the constructor configures (lines 24-31).
GithubKey == "github"

\* rateLimitManager.wrap(key, fn)(): the operation joins the key's queue.
ManagerSubmit(net, key, op) ==
    [net EXCEPT !.queue = Append(@, [key |-> key, op |-> op])]

\* fn() with no manager in between: the request leaves at once.
DirectCall(net, op) ==
    [net EXCEPT !.remote = @ \cup {op}, !.remoteStarts[1] = @ + 1]

\* wrapWithRateLimit("github", fn): every caller passes the same key.
wrapWithRateLimit(net, op) == ManagerSubmit(net, GithubKey, op)

RECURSIVE SubmitAll(_, _)
SubmitAll(net, ops) ==
    IF ops = <<>> THEN net
    ELSE SubmitAll(wrapWithRateLimit(net, Head(ops)), Tail(ops))

\* The manager starts the head of the queue when both gates allow it.
ManagerStart ==
    /\ queue # <<>>
    /\ Cardinality(running) < Concurrency
    /\ Sum(recentStarts) < RequestsPerInterval
    /\ queue' = Tail(queue)
    /\ running' = running \cup {Head(queue)}
    /\ recentStarts' = [recentStarts EXCEPT ![1] = @ + 1]
    /\ remote' = remote \cup {Head(queue).op}
    /\ remoteStarts' = [remoteStarts EXCEPT ![1] = @ + 1]
    /\ UNCHANGED <<tree, gitignore, ignoredFiles, call>>

Shift(w) == [i \in 1..IntervalTicks |-> IF i = 1 THEN 0 ELSE w[i - 1]]

\* One tick of the clock: starts older than the interval leave the window.
\* A tick on an empty window changes nothing and is left out.
Tick ==
    /\ Sum(remoteStarts) > 0
    /\ recentStarts' = Shift(recentStarts)
    /\ remoteStarts' = Shift(remoteStarts)
    /\ UNCHANGED <<tree, gitignore, ignoredFiles, queue, running, remote, call>>

\* The continuation of the call that awaited op: the operation has settled,
\* the call's state becomes nc, and it submits subs, in order.
Continue(op, nc, subs) ==
    LET net0 == [queue |-> queue, remote |-> remote \ {op},
                 remoteStarts |-> remoteStarts]
        net1 == SubmitAll(net0, subs)
    IN /\ queue' = net1.queue
       /\ remote' = net1.remote
       /\ remoteStarts' = net1.remoteStarts
       /\ running' = {e \in running : e.op # op}
       /\ call' = [call EXCEPT ![op.call] = [nc EXCEPT !.issued = @ \o subs]]
       /\ UNCHANGED <<tree, gitignore, recentStarts>>

\* A step of a call that settles no operation (the caller's own steps).
Proceed(c, nc, subs) ==
    LET net0 == [queue |-> queue, remote |-> remote,
                 remoteStarts |-> remoteStarts]
        net1 == SubmitAll(net0, subs)
    IN /\ queue' = net1.queue
       /\ remote' = net1.remote
       /\ remoteStarts' = net1.remoteStarts
       /\ call' = [call EXCEPT ![c] = [nc EXCEPT !.issued = @ \o subs]]
       /\ UNCHANGED <<tree, gitignore, recentStarts, running, ignoredFiles>>

(***************************************************************************)
(* The pure steps of the pipeline.                                         *)
(***************************************************************************)
\* loadGitignore, lines 183-192: decode, split, trim, drop blanks and comments.
ParseGitignore(b64) ==
    LET lines == SplitLines(Utf8Decode(Base64Decode(b64)))
        trimmed == [i \in DOMAIN lines |-> Trim(lines[i])]
    IN Range(SelectSeq(trimmed, LAMBDA l : l # <<>> /\ ~StartsWithHash(l)))

\* The filter without its exclusion test.
FilterTreeKeepExcluded(listing, filterFn, excluded) ==
    SelectSeq(listing, LAMBDA item :
        item.type = "blob" /\ FilterAccepts(filterFn, item.path))

\* A filter that also drops every path that begins with an excluded one.
FilterTreeByPrefix(listing, filterFn, excluded) ==
    SelectSeq(listing, LAMBDA item :
        /\ item.type = "blob"
        /\ FilterAccepts(filterFn, item.path)
        /\ ~\E x \in excluded :
              Len(x) <= Len(item.path) /\ SubSeq(item.path, 1, Len(x)) = x)

\* A filter without its test of the entry's kind.
FilterTreeKeepTrees(listing, filterFn, excluded) ==
    SelectSeq(listing, LAMBDA item :
        FilterAccepts(filterFn, item.path) /\ item.path \notin excluded)

\* getRepoFiles, lines 125-130: the filter over the tree listing.
FilterTree(listing, filterFn, excluded) ==
    SelectSeq(listing, LAMBDA item :
        /\ item.type = "blob"
        /\ FilterAccepts(filterFn, item.path)
        /\ item.path \notin excluded)

\* fetchFileContent, lines 143-151: the file of a content response, or null.
FileOfResponse(path, data, decodeContent) ==
    IF data.hasContent
    THEN LET raw == Base64Decode(data.content)
             content == IF decodeContent THEN Utf8Encode(Utf8Decode(raw)) ELSE raw
         IN File(path, Utf8Decode(content))
    ELSE Null

\* `File: ${f.path}\nContent:\n${f.content}\n---\n`
FileBlock(f) ==
    <<70, 105, 108, 101, 58, 32>> \o f.path
    \o <<10, 67, 111, 110, 116, 101, 110, 116, 58, 10>> \o f.content
    \o <<10, 45, 45, 45, 10>>

FilesText(files) == Join([i \in DOMAIN files |-> FileBlock(files[i])], <<10>>)

Throw == [kind |-> "throw"]

\* A formatter whose buffer holds one byte per character (latin1).
formatOutputLatin1(files, format) ==
    IF format = "json" THEN [kind |-> "json", files |-> files]
    ELSE IF format = "string" THEN [kind |-> "string", text |-> FilesText(files)]
    ELSE IF format = "buffer"
         THEN [kind |-> "buffer",
               bytes |-> [i \in DOMAIN FilesText(files) |-> FilesText(files)[i] % 256]]
    ELSE Throw

\* formatOutput, lines 154-175.
formatOutput(files, format) ==
    IF format = "json" THEN [kind |-> "json", files |-> files]
    ELSE IF format = "string" THEN [kind |-> "string", text |-> FilesText(files)]
    ELSE IF format = "buffer"
         THEN [kind |-> "buffer", bytes |-> Utf8Encode(FilesText(files))]
    ELSE Throw

\* contents.filter(Boolean)
Truthy(contents) == SelectSeq(contents, LAMBDA x : x # Null)

(***************************************************************************)
(* How a call ends.                                                        *)
(***************************************************************************)
Reject(st, error) == [st EXCEPT !.pc = "done", !.outcome = error]

\* The request of operation kind `by` failed and its error propagates.
RequestFailed(st, by) == [Reject(st, "RequestError") EXCEPT !.thrownBy = by]

\* return this.formatOutput(...): the value, or the error formatOutput throws.
ReturnFormatted(st, files) ==
    LET r == formatOutput(files, st.outputFormat)
    IN IF r = Throw THEN Reject(st, "UnsupportedOutputFormat")
       ELSE [st EXCEPT !.pc = "done", !.outcome = "ok", !.result = r]

(***************************************************************************)
(* The caller: fetchRepoContent(...), fetchRepoContentStream(...) and the  *)
(* consumer's next() on the generator.                                     *)
(***************************************************************************)
\* Calls are numbered in the order they are made.
CanStart(c) ==
    /\ call[c].pc = "idle"
    /\ \A d \in 1..(c - 1) : call[d].pc # "idle"

\* Argument values: decodeContent, ignoreGitIgnoreFiles, outputFormat, filterFn.
AllArgs == [d : BOOLEAN, g : BOOLEAN, fmt : Formats, f : Filters]
\* The arguments with the default decodeContent, outputFormat and filterFn.
DefaultArgs == [d : {FALSE}, g : BOOLEAN, fmt : {"json"}, f : {"none"}]

WithArgs(mode, decodeContent, ignoreGitIgnoreFiles, outputFormat, filterFn) ==
    [IdleCall EXCEPT !.mode = mode, !.decodeContent = decodeContent,
                     !.fresh = (ignoredFiles = {}),
                     !.ignoreGitIgnoreFiles = ignoreGitIgnoreFiles,
                     !.outputFormat = outputFormat, !.filterFn = filterFn]

\* fetchRepoContent up to its first await (line 51): the quota check is submitted.
StartBatch(c, Args) ==
    /\ CanStart(c)
    /\ \E a \in Args :
          Proceed(c, [WithArgs("batch", a.d, a.g, a.fmt, a.f) EXCEPT !.pc = "quota"],
                  <<Op(c, "quota", 0)>>)

\* fetchRepoContentStream(...) returns a generator; nothing runs yet.
StartStream(c, Args) ==
    /\ CanStart(c)
    /\ \E a \in Args :
          Proceed(c, [WithArgs("stream", a.d, a.g, a.fmt, a.f) EXCEPT !.pc = "created"],
                  <<>>)

QueuedOps == {queue[i].op : i \in DOMAIN queue}

\* The caller lets go of a settled call once none of its operations is left
\* with the manager; the instance lives on and takes further calls.
Release(c) ==
    /\ call[c].pc = "done"
    /\ \A op \in remote \cup QueuedOps : op.call # c
    /\ call' = [call EXCEPT ![c] = IdleCall]
    /\ UNCHANGED <<tree, gitignore, ignoredFiles, queue, running, recentStarts,
                   remote, remoteStarts>>

\* A loop that returns before the last entry.
StreamFromStopsEarly(st, c, i) ==
    IF i >= Len(st.files)
    THEN [st |-> [st EXCEPT !.pc = "done", !.outcome = "ok", !.cursor = i],
          subs |-> <<>>]
    ELSE [st |-> [st EXCEPT !.pc = "content", !.cursor = i],
          subs |-> <<Op(c, "content", i)>>]

\* The for loop of lines 93-101 from entry i on: the next content fetch is
\* submitted, or the generator returns.
StreamFrom(st, c, i) ==
    IF i > Len(st.files)
    THEN [st |-> [st EXCEPT !.pc = "done", !.outcome = "ok", !.cursor = i],
          subs |-> <<>>]
    ELSE [st |-> [st EXCEPT !.pc = "content", !.cursor = i],
          subs |-> <<Op(c, "content", i)>>]

\* next(): the generator starts (line 82), or resumes after its yield.
Pull(c) ==
    \/ /\ call[c].pc = "created"
       /\ Proceed(c, [call[c] EXCEPT !.pc = "quota",
                                     !.fresh = (ignoredFiles = {})],
                  <<Op(c, "quota", 0)>>)
    \/ /\ call[c].pc = "yielded"
       /\ LET n == StreamFrom(call[c], c, call[c].cursor + 1)
          IN Proceed(c, n.st, n.subs)

(***************************************************************************)
(* The continuations: what a call does when the operation it awaits        *)
(* settles, up to its next await.  A remote operation may fail whatever    *)
(* the snapshot holds (network, throttling, not found).                    *)
(***************************************************************************)
\* rateLimit.get(): the values of resources.core.remaining.
Remainings == {0, 1}

\* A check that lets a remaining of 0 through.
QuotaExhaustedBelowZero(remaining) == remaining < 0

\* Line 52 and line 83.
QuotaExhausted(remaining) == remaining = 0

\* A quota continuation that submits the ignore-file fetch and the branch
\* resolution together.
QuotaCompleteSubmitsTwo(c) ==
    LET op == Op(c, "quota", 0)
        st == call[c]
    IN /\ op \in remote
       /\ st.pc = "quota"
       /\ UNCHANGED ignoredFiles
       /\ \/ Continue(op, RequestFailed(st, "quota"), <<>>)
          \/ \E remaining \in Remainings :
                LET got == [st EXCEPT !.remaining = remaining]
                IN IF QuotaExhausted(remaining)
                   THEN Continue(op, Reject(got, "RateLimitExceeded"), <<>>)
                   ELSE IF st.ignoreGitIgnoreFiles
                   THEN Continue(op, [got EXCEPT !.pc = "gitignore"],
                                 <<Op(c, "gitignore", 0), Op(c, "commit", 0)>>)
                   ELSE Continue(op, [got EXCEPT !.pc = "commit"],
                                 <<Op(c, "commit", 0)>>)

\* Lines 51-60 and 82-91: after the quota check.
QuotaComplete(c) ==
    LET op == Op(c, "quota", 0)
        st == call[c]
    IN /\ op \in remote
       /\ st.pc = "quota"
       /\ UNCHANGED ignoredFiles
       /\ \/ Continue(op, RequestFailed(st, "quota"), <<>>)
          \/ \E remaining \in Remainings :
                LET got == [st EXCEPT !.remaining = remaining]
                IN IF QuotaExhausted(remaining)
                   THEN Continue(op, Reject(got, "RateLimitExceeded"), <<>>)
                   ELSE IF st.ignoreGitIgnoreFiles
                   THEN Continue(op, [got EXCEPT !.pc = "gitignore"],
                                 <<Op(c, "gitignore", 0)>>)
                   ELSE Continue(op, [got EXCEPT !.pc = "commit"],
                                 <<Op(c, "commit", 0)>>)

\* Lines 182-196: the exclusion set after the .gitignore response.
LoadedIgnoredFiles(old, data) ==
    IF data.hasContent THEN ParseGitignore(data.content) ELSE old

\* loadGitignore after its await, then getRepoFiles up to line 110.
GitignoreComplete(c) ==
    LET op == Op(c, "gitignore", 0)
        st == call[c]
    IN /\ op \in remote
       /\ st.pc = "gitignore"
       /\ \E load \in {IF gitignore.hasContent THEN "loaded" ELSE "nocontent",
                         "failed"} :
             /\ ignoredFiles' =
                    IF load = "failed" THEN ignoredFiles   \* caught, line 194
                    ELSE LoadedIgnoredFiles(ignoredFiles, gitignore)
             /\ Continue(op, [st EXCEPT !.pc = "commit", !.gitignoreLoad = load],
                         <<Op(c, "commit", 0)>>)

\* Lines 113-116: the commit response, with or without commit.tree.sha.
CommitComplete(c) ==
    LET op == Op(c, "commit", 0)
        st == call[c]
    IN /\ op \in remote
       /\ st.pc = "commit"
       /\ UNCHANGED ignoredFiles
       /\ \/ Continue(op, RequestFailed(st, "commit"), <<>>)
          \/ Continue(op, Reject(st, "TreeShaNotFound"), <<>>)
          \/ Continue(op, [st EXCEPT !.pc = "tree"], <<Op(c, "tree", 0)>>)

\* Lines 60-70: the batch fetch once the files are known.
BatchFetch(st, c) ==
    IF st.files = <<>>
    THEN [st |-> ReturnFormatted(st, <<>>), subs |-> <<>>]
    ELSE [st |-> [st EXCEPT !.pc = "contents"],
          subs |-> [i \in DOMAIN st.files |-> Op(c, "content", i)]]

\* Lines 125-130, then the caller's next lines.
TreeComplete(c) ==
    LET op == Op(c, "tree", 0)
        st == call[c]
        files == FilterTree(tree, st.filterFn, ignoredFiles)
        listed == [st EXCEPT !.listed = TRUE,
                             !.files = files, !.used = ignoredFiles,
                             !.contents = [i \in DOMAIN files |-> Pending]]
        n == IF st.mode = "batch" THEN BatchFetch(listed, c)
             ELSE StreamFrom(listed, c, 1)
    IN /\ op \in remote
       /\ st.pc = "tree"
       /\ UNCHANGED ignoredFiles
       /\ \/ Continue(op, RequestFailed(st, "tree"), <<>>)
          \/ Continue(op, n.st, n.subs)

\* A batch that drops the fetches that failed and returns the rest.
BatchSettleSkipFailed(st, i, x) ==
    LET got == [st EXCEPT !.contents[i] = x, !.settled = Append(@, i)]
    IN IF st.pc # "contents" THEN got
       ELSE IF \A j \in DOMAIN got.contents : got.contents[j] # Pending
       THEN ReturnFormatted(got, SelectSeq(got.contents,
                                           LAMBDA y : y \notin {Null, Failed}))
       ELSE got

\* A batch that lists its files in the order their fetches completed.
BatchSettleCompletionOrder(st, i, x) ==
    LET got == [st EXCEPT !.contents[i] = x, !.settled = Append(@, i)]
    IN IF st.pc # "contents" THEN got
       ELSE IF x = Failed THEN RequestFailed(got, "content")
       ELSE IF \A j \in DOMAIN got.contents : got.contents[j] # Pending
       THEN ReturnFormatted(got,
                Truthy([k \in DOMAIN got.settled |-> got.contents[got.settled[k]]]))
       ELSE got

\* Promise.all over the batch: the first rejection rejects the call, the
\* last fulfilment returns the formatted list; afterwards nothing changes
\* the outcome.
BatchSettle(st, i, x) ==
    LET got == [st EXCEPT !.contents[i] = x, !.settled = Append(@, i)]
    IN IF st.pc # "contents" THEN got
       ELSE IF x = Failed THEN RequestFailed(got, "content")
       ELSE IF \A j \in DOMAIN got.contents : got.contents[j] # Pending
       THEN ReturnFormatted(got, Truthy(got.contents))
       ELSE got

\* A generator that goes on to the next entry when a fetch fails.
StreamSettleSkipFailed(st, c, i, x) ==
    LET got == [st EXCEPT !.contents[i] = x, !.settled = Append(@, i)]
    IN IF x \in {Failed, Null} THEN StreamFrom(got, c, i + 1)
       ELSE LET r == formatOutput(<<x>>, st.outputFormat)
            IN IF r = Throw
               THEN [st |-> Reject(got, "UnsupportedOutputFormat"), subs |-> <<>>]
               ELSE [st |-> [got EXCEPT !.pc = "yielded",
                                        !.yielded = Append(@, r)],
                     subs |-> <<>>]

\* A generator that returns at the first entry without content.
StreamSettleStopAtNull(st, c, i, x) ==
    LET got == [st EXCEPT !.contents[i] = x, !.settled = Append(@, i)]
    IN IF x = Failed THEN [st |-> RequestFailed(got, "content"), subs |-> <<>>]
       ELSE IF x = Null
       THEN [st |-> [got EXCEPT !.pc = "done", !.outcome = "ok"], subs |-> <<>>]
       ELSE LET r == formatOutput(<<x>>, st.outputFormat)
            IN IF r = Throw
               THEN [st |-> Reject(got, "UnsupportedOutputFormat"), subs |-> <<>>]
               ELSE [st |-> [got EXCEPT !.pc = "yielded",
                                        !.yielded = Append(@, r)],
                     subs |-> <<>>]

\* A generator that submits the fetch of the next entry as it yields.
StreamSettleEager(st, c, i, x) ==
    LET got == [st EXCEPT !.contents[i] = x, !.settled = Append(@, i)]
    IN IF x = Failed THEN [st |-> RequestFailed(got, "content"), subs |-> <<>>]
       ELSE IF x = Null THEN StreamFrom(got, c, i + 1)
       ELSE LET r == formatOutput(<<x>>, st.outputFormat)
            IN IF r = Throw
               THEN [st |-> Reject(got, "UnsupportedOutputFormat"), subs |-> <<>>]
               ELSE [st |-> [got EXCEPT !.pc = "yielded",
                                        !.yielded = Append(@, r)],
                     subs |-> IF i < Len(st.files)
                              THEN <<Op(c, "content", i + 1)>> ELSE <<>>]

\* Line 100: the generator after its content fetch.
StreamSettle(st, c, i, x) ==
    LET got == [st EXCEPT !.contents[i] = x, !.settled = Append(@, i)]
    IN IF x = Failed THEN [st |-> RequestFailed(got, "content"), subs |-> <<>>]
       ELSE IF x = Null THEN StreamFrom(got, c, i + 1)
       ELSE LET r == formatOutput(<<x>>, st.outputFormat)
            IN IF r = Throw
               THEN [st |-> Reject(got, "UnsupportedOutputFormat"), subs |-> <<>>]
               ELSE [st |-> [got EXCEPT !.pc = "yielded",
                                        !.yielded = Append(@, r)],
                     subs |-> <<>>]

\* A batch whose rejection takes its waiting content fetches off the queue.
ContentCompleteWithdraws(c, i) ==
    LET op == Op(c, "content", i)
        st == call[c]
        file == FileOfResponse(st.files[i].path, BlobResponse(st.files[i].path),
                               st.decodeContent)
    IN /\ op \in remote
       /\ UNCHANGED ignoredFiles
       /\ \E x \in {Failed, file} :
             IF st.mode = "batch"
             THEN IF x = Failed
                  THEN /\ queue' = SelectSeq(queue, LAMBDA e : e.op.call # c)
                       /\ remote' = remote \ {op}
                       /\ running' = {e \in running : e.op # op}
                       /\ call' = [call EXCEPT ![c] = BatchSettle(st, i, x)]
                       /\ UNCHANGED <<tree, gitignore, recentStarts, remoteStarts>>
                  ELSE Continue(op, BatchSettle(st, i, x), <<>>)
             ELSE LET n == StreamSettle(st, c, i, x)
                  IN Continue(op, n.st, n.subs)

\* fetchFileContent after its await, then the caller's next lines.
ContentComplete(c, i) ==
    LET op == Op(c, "content", i)
        st == call[c]
        file == FileOfResponse(st.files[i].path, BlobResponse(st.files[i].path),
                               st.decodeContent)
    IN /\ op \in remote
       /\ UNCHANGED ignoredFiles
       /\ \E x \in {Failed, file} :
             IF st.mode = "batch"
             THEN Continue(op, BatchSettle(st, i, x), <<>>)
             ELSE LET n == StreamSettle(st, c, i, x)
                  IN Continue(op, n.st, n.subs)

\* The steps of the limiter, the clock and the continuations of call c.
Settle(c) ==
    \/ QuotaComplete(c)
    \/ GitignoreComplete(c)
    \/ CommitComplete(c)
    \/ TreeComplete(c)
    \/ \E i \in 1..Len(FullTree) : ContentComplete(c, i)

(***************************************************************************)
(* Spec: any number of top-level fetches, one after the other, on one      *)
(* instance, with every combination of arguments.                          *)
(***************************************************************************)
Next ==
    \/ StartBatch(1, AllArgs)
    \/ StartStream(1, AllArgs)
    \/ Pull(1)
    \/ Release(1)
    \/ ManagerStart
    \/ Tick
    \/ Settle(1)

Spec == Init /\ [][Next]_vars

(***************************************************************************)
(* SpecPar: top-level fetches that overlap on one instance, with the       *)
(* default decodeContent, outputFormat and filterFn, on the longest tree   *)
(* listing.                                                                *)
(***************************************************************************)
InitPar == Init /\ Len(tree) = MaxTree

NextPar ==
    \/ \E c \in Calls : StartBatch(c, DefaultArgs)
    \/ \E c \in Calls : StartStream(c, DefaultArgs)
    \/ \E c \in Calls : Pull(c)
    \/ ManagerStart
    \/ Tick
    \/ \E c \in Calls : Settle(c)

SpecPar == InitPar /\ [][NextPar]_vars

(***************************************************************************)
(* SpecIgnore: one top-level fetch with exclusions enabled, over generated *)
(* .gitignore texts and the listings they are applied to.                  *)
(***************************************************************************)
IgnoreArgs == [d : {FALSE}, g : {TRUE}, fmt : {"json"}, f : {"none"}]

InitIgnore ==
    /\ tree \in IgnoreTrees
    /\ gitignore \in {IgnoreResponse(t) : t \in IgnoreTexts}
    /\ ignoredFiles = {}
    /\ queue = <<>>
    /\ running = {}
    /\ recentStarts = EmptyWindow
    /\ remote = {}
    /\ remoteStarts = EmptyWindow
    /\ call = [c \in Calls |-> IdleCall]

NextIgnore ==
    \/ StartBatch(1, IgnoreArgs)
    \/ StartStream(1, IgnoreArgs)
    \/ Pull(1)
    \/ ManagerStart
    \/ Tick
    \/ Settle(1)

SpecIgnore == InitIgnore /\ [][NextIgnore]_vars

(***************************************************************************)
(* SpecBatch: one batch fetch with exclusions disabled, where the manager  *)
(* starts what it may start, time passes and the remote API answers every  *)
(* request it received.                                                    *)
(***************************************************************************)
BatchArgs == [d : {FALSE}, g : {FALSE}, fmt : {"json"}, f : {"none"}]

InitBatch == Init /\ gitignore = NoContent

\* The continuations of a fetch that loads no exclusions.
SettleBatch(c) ==
    \/ QuotaComplete(c)
    \/ CommitComplete(c)
    \/ TreeComplete(c)
    \/ \E i \in 1..Len(FullTree) : ContentComplete(c, i)

NextBatch ==
    \/ StartBatch(1, BatchArgs)
    \/ ManagerStart
    \/ Tick
    \/ SettleBatch(1)

SpecBatch ==
    /\ InitBatch /\ [][NextBatch]_vars
    /\ WF_vars(ManagerStart) /\ WF_vars(Tick) /\ WF_vars(SettleBatch(1))

(***************************************************************************)
(* Properties.                                                             *)
(***************************************************************************)
Outstanding(c) == {op \in remote \cup QueuedOps : op.call = c}

\* C1: in batch and in streaming mode, a call whose quota check reported
\* remaining = 0 has failed with the rate-limit error, and the quota check is
\* the only remote call it ever submitted: no .gitignore load, no branch
\* resolution, no tree listing, no content fetch.
C1_QuotaZeroFailsFast ==
    \A c \in Calls :
        call[c].remaining = 0 =>
            /\ call[c].pc = "done"
            /\ call[c].outcome = "RateLimitExceeded"
            /\ call[c].issued = <<Op(c, "quota", 0)>>
            /\ Outstanding(c) = {}

C1_Witness ==
    \E c \in Calls :
        /\ call[c].remaining = 0
        /\ call[c].mode = "stream"
        /\ call[c].ignoreGitIgnoreFiles
        /\ call[c].outcome = "RateLimitExceeded"

\* C2: a batch call with outputFormat json that returns holds, for every
\* entry of the tree listing, exactly one {path, content} entry if the entry
\* is a blob that passed the filter (predicate and exclusion set) and whose
\* content response carries content, and none otherwise; and every returned
\* path is the path of exactly one entry that passed the filter.
C2_BatchJsonOnePerContentBearingBlob ==
    \A c \in Calls :
        LET st == call[c]
        IN (/\ st.mode = "batch" /\ st.pc = "done" /\ st.outcome = "ok"
            /\ st.outputFormat = "json") =>
           LET out == st.result.files
               Passing == {i \in DOMAIN tree :
                              /\ tree[i].type = "blob"
                              /\ FilterAccepts(st.filterFn, tree[i].path)
                              /\ tree[i].path \notin st.used}
               Hits(p) == {j \in DOMAIN out : out[j].path = p}
           IN /\ st.result.kind = "json"
              /\ \A i \in DOMAIN tree :
                    Cardinality(Hits(tree[i].path)) =
                        IF i \in Passing /\ BlobResponse(tree[i].path).hasContent
                        THEN 1 ELSE 0
              /\ \A j \in DOMAIN out :
                    /\ DOMAIN out[j] = {"path", "content"}
                    /\ Cardinality({i \in Passing : tree[i].path = out[j].path}) = 1

C2_Witness ==
    \E c \in Calls :
        LET st == call[c]
        IN /\ st.mode = "batch" /\ st.pc = "done" /\ st.outcome = "ok"
           /\ st.outputFormat = "json"
           /\ \E i \in DOMAIN tree : tree[i].type = "tree"
           /\ \E i \in DOMAIN tree : tree[i].type = "blob" /\ tree[i].path \in st.used
           /\ \E i \in DOMAIN st.files : ~BlobResponse(st.files[i].path).hasContent
           /\ Len(st.result.files) >= 1

\* C3: the exclusion set a top-level fetch filters with is the set that this
\* fetch itself loaded from .gitignore, or the empty set; a fetch called with
\* ignoreGitIgnoreFiles = false therefore excludes no path.
C3_ExclusionSetIsPerOperation ==
    \A c \in Calls :
        call[c].listed =>
            call[c].used = IF call[c].gitignoreLoad = "loaded"
                           THEN ParseGitignore(gitignore.content)
                           ELSE {}

\* C4: when exclusions are enabled and the .gitignore response carries no
\* content, or its fetch fails, the fetch is not failed by it and filters
\* with the empty exclusion set.
C4_FailedIgnoreLoadMeansNoExclusions ==
    \A c \in Calls :
        call[c].gitignoreLoad \in {"nocontent", "failed"} =>
            /\ call[c].thrownBy # "gitignore"
            /\ call[c].pc # "gitignore"
            /\ call[c].listed => call[c].used = {}

\* C5: every request outstanding at the remote API was started by the
\* manager under the key "github", everything waiting waits under that key,
\* never more than `concurrency` requests are outstanding at once and never
\* more than `requestsPerInterval` requests start within one interval,
\* whatever the calls in progress submit.
C5_RemoteCallsUnderTheLimiter ==
    /\ Cardinality(remote) <= Concurrency
    /\ Sum(remoteStarts) <= RequestsPerInterval
    /\ \A op \in remote : [key |-> GithubKey, op |-> op] \in running
    /\ \A i \in DOMAIN queue : queue[i].key = GithubKey

C5_Witness ==
    /\ Cardinality(remote) = Concurrency
    /\ Sum(remoteStarts) = RequestsPerInterval
    /\ queue # <<>>
    /\ \E op1, op2 \in remote \cup QueuedOps : op1.call # op2.call
    /\ \E c \in Calls :
          /\ call[c].mode = "batch"
          /\ Cardinality({op \in Outstanding(c) : op.kind = "content"}) >= 2

ContentBearing(files) ==
    SelectSeq(files, LAMBDA e : BlobResponse(e.path).hasContent)

Paths(files) == [i \in DOMAIN files |-> files[i].path]

\* C6: a batch call has no result until it settles; it settles either with
\* the formatted list of the files of every content-bearing entry that
\* survived the filter, all of its content fetches having succeeded, or with
\* an error and no result; and once one content fetch has failed it never
\* has a result.
C6_BatchAllOrNothing ==
    \A c \in Calls :
        LET st == call[c]
        IN st.mode = "batch" =>
           /\ st.pc # "done" => st.outcome = "pending" /\ st.result = NoResult
           /\ st.pc = "done" =>
                \/ /\ st.outcome = "ok"
                   /\ \A i \in DOMAIN st.contents :
                         st.contents[i] \notin {Pending, Failed}
                   /\ st.result = formatOutput(Truthy(st.contents), st.outputFormat)
                   /\ Paths(Truthy(st.contents)) = Paths(ContentBearing(st.files))
                \/ /\ st.outcome \notin {"ok", "pending"}
                   /\ st.result = NoResult
           /\ (\E i \in DOMAIN st.contents : st.contents[i] = Failed) =>
                st.outcome # "ok" /\ st.result = NoResult

C6_Witness ==
    \E c \in Calls :
        LET st == call[c]
        IN /\ st.mode = "batch" /\ st.pc = "done"
           /\ st.outcome = "RequestError" /\ st.thrownBy = "content"
           /\ \E i \in DOMAIN st.contents : st.contents[i] = Failed
           /\ \E i \in DOMAIN st.contents :
                 st.contents[i] \notin {Pending, Failed, Null}

\* C7: in streaming mode, once the content fetch of entry k has failed the
\* generator has ended with that error at entry k; what it yielded is the
\* formatted file of each content-bearing entry among the first k-1, in
\* order; no content fetch was submitted for a later entry and none is
\* outstanding.
C7_StreamEndsAtTheFailure ==
    \A c \in Calls :
        LET st == call[c]
        IN \A k \in DOMAIN st.contents :
             (st.mode = "stream" /\ st.contents[k] = Failed) =>
               LET before == SubSeq(st.contents, 1, k - 1)
                   got == Truthy(before)
               IN /\ st.pc = "done"
                  /\ st.outcome = "RequestError" /\ st.thrownBy = "content"
                  /\ st.cursor = k
                  /\ \A j \in DOMAIN before : before[j] \notin {Pending, Failed}
                  /\ Paths(got) =
                        Paths(ContentBearing(SubSeq(st.files, 1, k - 1)))
                  /\ st.yielded =
                        [j \in DOMAIN got |-> formatOutput(<<got[j]>>, st.outputFormat)]
                  /\ \A j \in (k + 1)..Len(st.contents) :
                        /\ st.contents[j] = Pending
                        /\ \A n \in DOMAIN st.issued :
                              st.issued[n] # Op(c, "content", j)
                  /\ Outstanding(c) = {}

C7_Witness ==
    \E c \in Calls :
        LET st == call[c]
        IN /\ st.mode = "stream"
           /\ \E k \in DOMAIN st.contents :
                 /\ k >= 2 /\ k < Len(st.contents)
                 /\ st.contents[k] = Failed
           /\ Len(st.yielded) >= 1

NoRemoteFailure(c) ==
    call[c].thrownBy = "none" /\ call[c].gitignoreLoad # "failed"

StreamedFiles(c) ==
    UNION {Range(call[c].yielded[i].files) : i \in DOMAIN call[c].yielded}

\* C8: on one snapshot, a batch call and a streaming call that were both made
\* on an instance with an empty exclusion set, with the same arguments and
\* outputFormat json, and that both ended without any remote call failing,
\* produced the same set of {path, content} files.
C8_StreamAndBatchAgree ==
    \A b, s \in Calls :
        (/\ call[b].mode = "batch" /\ call[s].mode = "stream"
         /\ call[b].pc = "done" /\ call[s].pc = "done"
         /\ call[b].outcome = "ok" /\ call[s].outcome = "ok"
         /\ call[b].outputFormat = "json" /\ call[s].outputFormat = "json"
         /\ call[b].decodeContent = call[s].decodeContent
         /\ call[b].ignoreGitIgnoreFiles = call[s].ignoreGitIgnoreFiles
         /\ call[b].filterFn = call[s].filterFn
         /\ call[b].fresh /\ call[s].fresh
         /\ NoRemoteFailure(b) /\ NoRemoteFailure(s))
        => StreamedFiles(s) = Range(call[b].result.files)

C8_Witness ==
    \E b, s \in Calls :
        /\ call[b].mode = "batch" /\ call[s].mode = "stream"
        /\ call[b].pc = "done" /\ call[s].pc = "done"
        /\ call[b].outcome = "ok" /\ call[s].outcome = "ok"
        /\ call[b].ignoreGitIgnoreFiles /\ call[s].ignoreGitIgnoreFiles
        /\ call[b].fresh /\ call[s].fresh
        /\ NoRemoteFailure(b) /\ NoRemoteFailure(s)
        /\ call[s].used # {}
        /\ \E i \in DOMAIN call[s].contents :
              /\ call[s].contents[i] = Null
              /\ i < Len(call[s].contents)
        /\ Len(call[s].yielded) >= 1
        /\ StreamedFiles(s) = Range(call[b].result.files)

\* C9: a call, batch or streaming, made with an output format other than
\* json, string and buffer, and in which no request failed, the quota was
\* not exhausted and the tree was found, ends with the unsupported-format
\* error.
C9_UnknownFormatAlwaysFails ==
    \A c \in Calls :
        (/\ call[c].pc = "done"
         /\ call[c].outputFormat \notin {"json", "string", "buffer"}
         /\ call[c].thrownBy = "none"
         /\ call[c].outcome \notin {"RateLimitExceeded", "TreeShaNotFound"})
        => call[c].outcome = "UnsupportedOutputFormat"

\* C10: a call whose branch was not resolved to a tree, because the commit
\* request failed or because its response carries no tree sha, has failed
\* with the "Tree SHA not found" error and has submitted no tree listing and
\* no content fetch.
C10_UnresolvedBranchFailsWithTreeShaNotFound ==
    \A c \in Calls :
        (call[c].thrownBy = "commit" \/ call[c].outcome = "TreeShaNotFound") =>
            /\ call[c].pc = "done"
            /\ call[c].outcome = "TreeShaNotFound"
            /\ \A n \in DOMAIN call[c].issued :
                  call[c].issued[n].kind \notin {"tree", "content"}

\* The lines of a text: the spans between line feeds (and the two ends).
LineSpans(text) ==
    {s \in (1..(Len(text) + 1)) \X (0..Len(text)) :
        /\ s[2] >= s[1] - 1
        /\ (s[1] = 1 \/ text[s[1] - 1] = 10)
        /\ (s[2] = Len(text) \/ text[s[2] + 1] = 10)
        /\ \A k \in s[1]..s[2] : text[k] # 10}

\* A span without the white space at its two ends.
SpanCore(text, s) ==
    LET ink == {k \in s[1]..s[2] : ~IsWhiteSpace(text[k])}
    IN IF ink = {} THEN <<>>
       ELSE SubSeq(text, CHOOSE k \in ink : \A j \in ink : k <= j,
                         CHOOSE k \in ink : \A j \in ink : k >= j)

\* The patterns of an ignore text: its trimmed lines, without the blank
\* ones and those that begin with "#".
PatternsOf(text) ==
    {p \in {SpanCore(text, s) : s \in LineSpans(text)} : p # <<>> /\ p[1] # 35}

\* The entries of a listing that are blobs with a path no pattern equals.
KeptByEquality(listing, patterns) ==
    SelectSeq(listing, LAMBDA e :
        e.type = "blob" /\ \A p \in patterns : p # e.path)

\* C11: the exclusion set loaded from an ignore file is the set of its
\* lines, trimmed, without the blank lines and the lines beginning with "#";
\* the filter drops exactly the blobs whose path equals a pattern: with
\* "a.txt" and "secret/" it drops a.txt and keeps secret/key.pem, and with
\* "dist/bundle.js" over README.md, src/a.ts, dist/bundle.js a fetch without
\* failures returns README.md and src/a.ts, in this order.
C11_IgnoreLinesAreExactPaths ==
    \A c \in Calls :
        LET st == call[c]
            want == PatternsOf(gitignore.text)
        IN st.gitignoreLoad = "loaded" =>
           /\ ignoredFiles = want
           /\ st.listed =>
                 /\ st.used = want
                 /\ st.files = KeptByEquality(tree, want)
           /\ (/\ st.listed /\ tree = PrefixTree
               /\ gitignore.text = PrefixIgnoreText) =>
                 /\ want = {PathATxt, <<115, 101, 99, 114, 101, 116, 47>>}
                 /\ Paths(st.files) = <<PathSecretKey>>
           /\ (/\ st.pc = "done" /\ st.outcome = "ok" /\ tree = BundleTree
               /\ gitignore.text = BundleIgnoreText) =>
                 IF st.mode = "batch"
                 THEN Paths(st.result.files) = <<PathReadme, PathSrcA>>
                 ELSE /\ st.yielded =
                            <<formatOutput(<<st.contents[1]>>, "json"),
                              formatOutput(<<st.contents[2]>>, "json")>>
                      /\ Paths(<<st.contents[1], st.contents[2]>>)
                            = <<PathReadme, PathSrcA>>

C11_Witness ==
    \E c \in Calls :
        LET st == call[c]
        IN /\ st.mode = "batch" /\ st.pc = "done" /\ st.outcome = "ok"
           /\ st.gitignoreLoad = "loaded"
           /\ tree = BundleTree /\ gitignore.text = BundleIgnoreText
           /\ Paths(st.result.files) = <<PathReadme, PathSrcA>>

\* What the content fetches of a call have delivered so far, in entry order.
Fetched(contents) == SelectSeq(contents, LAMBDA x : x \notin {Pending, Failed, Null})

\* "File: <path>\nContent:\n<content>\n---\n"
BlockText(f) ==
    <<70, 105, 108, 101, 58, 32>> \o f.path \o <<10>>
    \o <<67, 111, 110, 116, 101, 110, 116, 58, 10>> \o f.content \o <<10>>
    \o <<45, 45, 45, 10>>

\* The blocks of the first n files, a line feed between consecutive blocks.
RECURSIVE BlocksText(_, _)
BlocksText(files, n) ==
    IF n = 0 THEN <<>>
    ELSE IF n = 1 THEN BlockText(files[1])
    ELSE BlocksText(files, n - 1) \o <<10>> \o BlockText(files[n])

\* The values a settled or suspended call has handed out, each with the
\* collection of files it was formatted from.
Outputs(c) ==
    LET st == call[c]
        got == Fetched(st.contents)
    IN IF st.mode = "batch"
       THEN IF st.pc = "done" /\ st.outcome = "ok"
            THEN {[value |-> st.result, files |-> got]} ELSE {}
       ELSE {[value |-> st.yielded[k], files |-> <<got[k]>>] :
                k \in DOMAIN st.yielded}

\* C12: whenever a call hands out a buffer, its bytes decoded as UTF-8 are
\* the string output for the same collection of files; and whenever it hands
\* out a string, the string is the blocks "File: <path>\nContent:\n<content>
\* \n---\n" of the files, in collection order, joined by a line feed.
C12_BufferDecodesToStringOutput ==
    \A c \in Calls : \A o \in Outputs(c) :
        /\ call[c].outputFormat = "buffer" =>
              /\ o.value.kind = "buffer"
              /\ Utf8Decode(o.value.bytes) = formatOutput(o.files, "string").text
        /\ call[c].outputFormat = "string" =>
              /\ o.value.kind = "string"
              /\ o.value.text = BlocksText(o.files, Len(o.files))
              /\ Utf8Decode(formatOutput(o.files, "buffer").bytes) = o.value.text

C12_Witness ==
    \E c \in Calls : \E o \in Outputs(c) :
        /\ call[c].outputFormat = "buffer"
        /\ Len(o.files) >= 2
        /\ \E i \in DOMAIN o.files : \E k \in DOMAIN o.files[i].content :
              o.files[i].content[k] >= 128
        /\ Utf8Decode(o.value.bytes) = BlocksText(o.files, Len(o.files))

\* C13: when top-level fetches interleave on one loader, a fetch that found
\* the exclusion set empty when it began filters its tree listing with the
\* set it loaded itself (the empty set if it loaded none), whatever another
\* fetch wrote to the loader in the meantime.
C13_InterleavedFetchFiltersWithOwnSet ==
    \A c \in Calls :
        (call[c].listed /\ call[c].fresh) =>
            call[c].used = IF call[c].gitignoreLoad = "loaded"
                           THEN ParseGitignore(gitignore.content)
                           ELSE {}

\* The file each content-bearing entry of a listing gives, in listing order.
FilesInOrder(files, decodeContent) ==
    LET kept == ContentBearing(files)
    IN [k \in DOMAIN kept |->
           FileOfResponse(kept[k].path, BlobResponse(kept[k].path), decodeContent)]

\* C14: a batch call that returns, returns the formatted list of the files
\* of the content-bearing entries in the order of the filtered tree listing,
\* the entries without content left out, in whatever order its content
\* fetches completed.
C14_BatchKeepsEnumerationOrder ==
    \A c \in Calls :
        LET st == call[c]
        IN (st.mode = "batch" /\ st.pc = "done" /\ st.outcome = "ok") =>
           /\ st.result = formatOutput(FilesInOrder(st.files, st.decodeContent),
                                       st.outputFormat)
           /\ \A i \in DOMAIN st.files :
                 st.contents[i] # Null => st.contents[i].path = st.files[i].path

C14_Witness ==
    \E c \in Calls :
        LET st == call[c]
        IN /\ st.mode = "batch" /\ st.pc = "done" /\ st.outcome = "ok"
           /\ st.outputFormat = "json"
           /\ Len(st.result.files) >= 2
           /\ \E i \in DOMAIN st.contents :
                 st.contents[i] = Null /\ 1 < i /\ i < Len(st.contents)
           /\ st.settled[Len(st.settled)] = 1
           /\ Paths(st.result.files) = Paths(ContentBearing(st.files))

SupportedFormats == {"json", "string", "buffer"}

\* The entries of a call whose content fetch has delivered a file or null.
Processed(st) == {i \in DOMAIN st.contents : st.contents[i] \notin {Pending, Failed}}

\* C15: in a streaming call with a supported output format the entries are
\* processed in the order of the filtered listing; what has been yielded is
\* one formatted item for each content-bearing entry processed so far, in
\* that order, and nothing for an entry without content; such an entry does
\* not end the sequence: the generator returns only after the last entry has
\* been processed, and it never yields more items than there are entries.
C15_StreamYieldsInEnumerationOrder ==
    \A c \in Calls :
        LET st == call[c]
            n == Cardinality(Processed(st))
            sofar == FilesInOrder(SubSeq(st.files, 1, n), st.decodeContent)
        IN (st.mode = "stream" /\ st.outputFormat \in SupportedFormats) =>
           /\ Processed(st) = 1..n
           /\ st.yielded =
                 [k \in DOMAIN sofar |-> formatOutput(<<sofar[k]>>, st.outputFormat)]
           /\ Len(st.yielded) <= Len(st.files)
           /\ (st.pc = "done" /\ st.outcome = "ok") =>
                 /\ n = Len(st.files)
                 /\ st.cursor = Len(st.files) + 1
                 /\ Outstanding(c) = {}
           /\ (st.pc = "done" /\ st.listed /\ n < Len(st.files)) =>
                 st.contents[n + 1] = Failed
           /\ (st.listed /\ n = Len(st.files)) =>
                 \/ st.pc = "done" /\ st.outcome = "ok"
                 \/ st.pc = "yielded" /\ st.cursor = Len(st.files)

C15_Witness ==
    \E c \in Calls :
        LET st == call[c]
        IN /\ st.mode = "stream" /\ st.pc = "done" /\ st.outcome = "ok"
           /\ st.outputFormat \in SupportedFormats
           /\ Len(st.files) >= 3
           /\ \E i \in DOMAIN st.contents :
                 st.contents[i] = Null /\ 1 < i /\ i < Len(st.contents)
           /\ Len(st.yielded) = 2
           /\ st.contents[Len(st.contents)] # Null

\* The content fetches a call has submitted, in the order it submitted them.
ContentIssued(c) == SelectSeq(call[c].issued, LAMBDA op : op.kind = "content")

\* C16: a streaming call has at most one content fetch outstanding; it
\* submits its content fetches one entry after the other, the fetch of an
\* entry only once the fetch of the entry before has delivered, and, where
\* that one delivered a file, only once its item has been yielded and the
\* consumer has pulled again: while the generator is suspended at a yield,
\* the last fetch submitted is the one of the entry just yielded and none is
\* outstanding.
C16_StreamFetchesOneAtATime ==
    \A c \in Calls :
        LET st == call[c]
            sub == ContentIssued(c)
        IN st.mode = "stream" =>
           /\ Cardinality({op \in Outstanding(c) : op.kind = "content"}) <= 1
           /\ sub = [k \in 1..Len(sub) |-> Op(c, "content", k)]
           /\ \A k \in 2..Len(sub) :
                 /\ st.contents[k - 1] \notin {Pending, Failed}
                 /\ Len(st.yielded) >= Len(Fetched(SubSeq(st.contents, 1, k - 1)))
           /\ \A op \in Outstanding(c) :
                 op.kind = "content" =>
                    /\ op.idx = Len(sub) /\ st.pc = "content" /\ st.cursor = op.idx
                    /\ st.contents[op.idx] = Pending
           /\ st.pc = "yielded" =>
                 /\ Len(sub) = st.cursor
                 /\ Outstanding(c) = {}
                 /\ st.contents[st.cursor] \notin {Pending, Failed, Null}
                 /\ Len(st.yielded) = Len(Fetched(st.contents))

C16_Witness ==
    \E c \in Calls :
        LET st == call[c]
        IN /\ st.mode = "stream" /\ st.pc = "content" /\ st.cursor >= 3
           /\ Op(c, "content", st.cursor) \in remote
           /\ st.contents[1] \notin {Pending, Failed, Null}
           /\ st.contents[2] = Null
           /\ Len(st.yielded) = 1

\* The remote calls of a top-level fetch before its content fetches.
StageOps(c) ==
    <<Op(c, "quota", 0)>>
    \o (IF call[c].ignoreGitIgnoreFiles THEN <<Op(c, "gitignore", 0)>> ELSE <<>>)
    \o <<Op(c, "commit", 0), Op(c, "tree", 0)>>

\* C17: the remote calls a top-level fetch has submitted are, in order, one
\* quota check, the ignore-file fetch if and only if exclusions are enabled,
\* the branch resolution, the tree listing, and then content fetches only;
\* each is submitted only when the one before it has completed (the content
\* fetches: when the tree listing has), and every content fetch is for an
\* entry of the filtered listing.
C17_StagesInOrder ==
    \A c \in Calls :
        LET st == call[c]
            stages == SelectSeq(st.issued, LAMBDA op : op.kind # "content")
            sub == ContentIssued(c)
        IN /\ st.pc \in {"idle", "created"} <=> st.issued = <<>>
           /\ st.issued = stages \o sub
           /\ Len(stages) <= Len(StageOps(c))
           /\ stages = SubSeq(StageOps(c), 1, Len(stages))
           /\ \A k \in 2..Len(stages) : stages[k - 1] \notin Outstanding(c)
           /\ sub # <<>> =>
                 /\ stages = StageOps(c)
                 /\ Op(c, "tree", 0) \notin Outstanding(c)
                 /\ st.listed
           /\ \A k \in DOMAIN sub :
                 /\ sub[k].idx \in DOMAIN st.files
                 /\ \E i \in DOMAIN tree :
                       /\ tree[i] = st.files[sub[k].idx]
                       /\ tree[i].type = "blob"
                       /\ FilterAccepts(st.filterFn, tree[i].path)
                       /\ tree[i].path \notin st.used
                 /\ \A j \in DOMAIN sub : sub[j] = sub[k] => j = k

C17_Witness ==
    \E c \in Calls :
        LET st == call[c]
        IN /\ st.pc = "done" /\ st.outcome = "ok"
           /\ st.ignoreGitIgnoreFiles
           /\ Len(st.issued) >= 6
           /\ st.issued[2] = Op(c, "gitignore", 0)
           /\ st.issued[5].kind = "content"

\* The positions of the raw listing that the enumerator of call c keeps.
KeptPositions(c) ==
    {i \in DOMAIN tree :
        /\ tree[i].type = "blob"
        /\ FilterAccepts(call[c].filterFn, tree[i].path)
        /\ tree[i].path \notin call[c].used}

\* C18: once the enumerator of a call has run, its files are the entries of
\* the raw tree listing that are blobs, pass the predicate if there is one
\* and whose path is not in the exclusion set the loader held at that
\* moment, each once and in listing order; and every content fetch the call
\* submits, in batch and in streaming mode, is for a blob.
C18_EnumeratorKeepsFilteredBlobsInOrder ==
    \A c \in Calls :
        LET st == call[c]
            Keep == KeptPositions(c)
        IN st.listed =>
           /\ Len(st.files) = Cardinality(Keep)
           /\ \A i \in Keep :
                 st.files[Cardinality({j \in Keep : j <= i})] = tree[i]
           /\ \A n \in DOMAIN st.issued :
                 st.issued[n].kind = "content" =>
                    /\ st.files[st.issued[n].idx].type = "blob"
                    /\ \E i \in Keep : tree[i] = st.files[st.issued[n].idx]

C18_Witness ==
    \E c \in Calls :
        LET st == call[c]
        IN /\ st.listed /\ st.filterFn = "notA" /\ st.used # {}
           /\ \E i \in DOMAIN tree : tree[i].type = "tree"
           /\ \E i \in DOMAIN tree : tree[i].type = "blob" /\ tree[i].path = PathA
           /\ Len(st.files) >= 2
           /\ Len(ContentIssued(c)) >= 2

\* The batch call c was rejected by a failed content fetch.
RejectedByContent(c) ==
    /\ call[c].mode = "batch" /\ call[c].pc = "done"
    /\ call[c].thrownBy = "content"

AllContentSettled(c) ==
    \A i \in DOMAIN call[c].contents : call[c].contents[i] # Pending

\* What holds of a batch call in every state: from the step that lists its
\* files on, the content fetches of all its files are submitted, in listing
\* order (also in the manager's queue), and a fetch that has not settled is
\* still with the manager or at the remote, whether or not the call has
\* been rejected.
BatchSubmitsAllKeepsAll(c) ==
    LET st == call[c]
    IN (st.mode = "batch" /\ st.listed) =>
       /\ ContentIssued(c) = [k \in DOMAIN st.files |-> Op(c, "content", k)]
       /\ \A p, q \in DOMAIN queue :
             (/\ p < q /\ queue[p].op.call = c /\ queue[q].op.call = c
              /\ queue[p].op.kind = "content" /\ queue[q].op.kind = "content")
             => queue[p].op.idx < queue[q].op.idx
       /\ \A i \in DOMAIN st.contents :
             st.contents[i] = Pending <=> Op(c, "content", i) \in Outstanding(c)

\* C19: a batch call submits the content fetches of all its files together,
\* in listing order, before any of them completes; the failure of one, which
\* rejects the call, withdraws none of the others: each stays with the
\* manager until it is started and at the remote until it completes, and
\* every one of them does complete after the rejection.
C19_BatchFailureWithdrawsNothing ==
    /\ [](\A c \in Calls : BatchSubmitsAllKeepsAll(c))
    /\ \A c \in Calls : RejectedByContent(c) ~> AllContentSettled(c)

C19_Witness ==
    \E c \in Calls :
        LET st == call[c]
        IN /\ RejectedByContent(c)
           /\ Len(st.files) = 3
           /\ Len(st.settled) = 3
           /\ st.contents[st.settled[1]] = Failed
           /\ \A k \in 2..3 : st.contents[st.settled[k]] \notin {Pending, Failed}

====
